---- MODULE Spec2Model ----
(***************************************************************************)
(* Model of the captcha image renderer, src/image.go.                      *)
(*                                                                         *)
(* NewImage is a sequential program: it is modelled as a state machine     *)
(* whose program counter pc walks through NewImage, fillWithCircles,       *)
(* drawNumber, strikeThrough and drawCircle.  Every local variable of a    *)
(* function lives in a record named after the function.  Random draws are  *)
(* the inputs of the actions.                                              *)
(*                                                                         *)
(* The pixel buffer is only ever written (img.Set), never read: the        *)
(* variable drawn holds the pixels written by the drawCircle call that is  *)
(* running (img.Set ignores points outside Bounds).                        *)
(***************************************************************************)
EXTENDS Integers, Sequences, FiniteSets, TLC

VARIABLES
    pc,                  \* position in the program
    width, height,       \* NewImage arguments, img.Bounds().Max
    numbers,             \* NewImage argument
    primaryColor,        \* img.primaryColor, <<R, G, B>>
    numWidth, numHeight, \* img.numWidth, img.numHeight
    dotSize,             \* img.dotSize
    newImage,            \* locals of NewImage
    fillWithCircles,     \* locals of fillWithCircles
    drawNumber,          \* locals of drawNumber
    strikeThrough,       \* locals of strikeThrough
    drawCircle,          \* arguments and locals of drawCircle
    setRandomBrightness, \* arguments of the last setRandomBrightness call
    drawn,               \* pixels set by the running drawCircle call
    intn                 \* arguments of the rand.Intn calls of the last step
                         \* of NewImage that drew

vars == <<pc, width, height, numbers, primaryColor, numWidth, numHeight,
          dotSize, newImage, fillWithCircles, drawNumber, strikeThrough,
          drawCircle, setRandomBrightness, drawn, intn>>

----------------------------------------------------------------------------
(* Program constants *)

StdWidth == 300
StdHeight == 80
maxSkew == 2
\* font.go is not among the sources: the glyph grid is 5 x 8 cells
fontWidth == 5
fontHeight == 8

----------------------------------------------------------------------------
(* Bounds of the model *)

\* Random draws from a range wider than Fan take the Fan values nearest to
\* its two ends
Fan == 2
\* Longest digit sequence
MaxDigits == 2
\* Small canvases: every width and height in 1..MaxSmall
MaxSmall == 2
\* calculateSizes alone: widths, heights and digit counts
MaxWidth == 16
MaxHeight == 16
MaxCount == 16
\* drawCircle alone: radius in -MaxRadius..MaxRadius
MaxRadius == 7
\* setRandomBrightness alone: number of cumulative calls
MaxCalls == 10

----------------------------------------------------------------------------
(* Go arithmetic *)

Abs(a) == IF a < 0 THEN -a ELSE a

\* Go's integer division truncates toward zero
Quot(a, b) == IF a >= 0 THEN a \div b ELSE -((-a) \div b)

\* uint8(int) conversion
Uint8(a) == a % 256

min3(x, y, z) ==
    LET o1 == x
        o2 == IF y < o1 THEN y ELSE o1
    IN  IF z < o2 THEN z ELSE o2

max3(x, y, z) ==
    LET o1 == x
        o2 == IF y > o1 THEN y ELSE o1
    IN  IF z > o2 THEN z ELSE o2

\* rand.Intn(n): the values it can return.  The package "rand" this file
\* imports returns 0 when n <= 0.
Intn(n) == IF n <= 0 THEN {0} ELSE 0 .. (n - 1)

\* The outcomes of rand.Intn(n) the model explores: all of them when there
\* are at most fan, else the fan values nearest to 0 and to n-1.
Draws(n, fan) ==
    IF n <= fan THEN Intn(n)
    ELSE (0 .. ((fan + 1) \div 2 - 1)) \cup ((n - fan \div 2) .. (n - 1))

IntnDraws(n) == Draws(n, Fan)

\* The outcomes of rand.Intn(129) NewImage explores for a channel of the
\* primary colour (SpecBrightness explores the colours)
PrimaryDraws == {128}

\* rnd with the range [from-1, to-1]
rndShifted(from, to, v) == v + from - 1

\* rnd returns a random number in range [from, to]
rnd(from, to, v) == v + from

\* the argument rnd hands to rand.Intn
rndArg(from, to) == to + 1 - from

----------------------------------------------------------------------------
(* calculateSizes *)

\* The float64 computation is exact on these operands: w, h, nc are small
\* integers, fw/fh = 6/8 and fh = 8 are dyadic, and whenever w*fh/(nc*fw),
\* w/(nc*fw) or w/nc is an integer the intermediate quotients are
\* representable, so int() and > act on the exact rationals.
calculateSizes(w0, h0, ncount) ==
    LET border == IF w0 > h0 THEN Quot(h0, 5) ELSE Quot(w0, 5)
        w == w0 - border * 2
        h == h0 - border * 2
        fw == fontWidth + 1
        fh == fontHeight
        nc == ncount
        \* nw = w/nc, nh = nw*fh/fw = (w*fh)/(nc*fw)
        tooLarge == w * fh > h * nc * fw           \* nh > h
        \* int(nh), int(nw), int(nh/fh) in either branch
        nhInt == IF tooLarge THEN h ELSE (w * fh) \div (nc * fw)
        nwInt == IF tooLarge THEN (fw * h) \div fh ELSE w \div nc
        dot == IF tooLarge THEN h \div fh ELSE w \div (nc * fw)
    IN  [dotSize |-> dot, numWidth |-> nwInt, numHeight |-> nhInt - dot]

----------------------------------------------------------------------------
(* setRandomBrightness *)

\* the argument of rand.Intn taken from the smallest channel
brightnessArgMin(c, max) == Uint8(max - min3(c[1], c[2], c[3]))

\* int(max-maxc), the argument of rand.Intn (max-maxc is a uint8)
brightnessArg(c, max) == Uint8(max - max3(c[1], c[2], c[3]))

\* the colour *c after setRandomBrightness(c, max) when rand.Intn returns v
brightened(c, max, v) ==
    LET minc == min3(c[1], c[2], c[3])
        maxc == max3(c[1], c[2], c[3])
        n == v - minc
    IN  IF maxc > max THEN c
        ELSE <<Uint8(c[1] + n), Uint8(c[2] + n), Uint8(c[3] + n)>>

----------------------------------------------------------------------------
(* Frames *)

NoNewImage == [maxx |-> 0, maxy |-> 0, x |-> 0, y |-> 0, i |-> 0]
NoFill == [color |-> <<0, 0, 0>>, i |-> 0]
NoDrawNumber == [x |-> 0, y |-> 0, xs |-> 0, skf |-> 0, minr |-> 0,
                 maxr |-> 0, yy |-> 0, xx |-> 0]
NoStrike == [r |-> 0, x |-> 0, y |-> 0]
NoCircle == [x |-> 0, y |-> 0, radius |-> 0, f |-> 0, dfx |-> 0, dfy |-> 0,
             xx |-> 0, yy |-> 0, ret |-> "done"]
NoBrightness == [c |-> <<0, 0, 0>>, max |-> 0, calls |-> 0]

\* img.Set(x, y, color): points outside img.Bounds() are ignored
InBounds(p) == p[1] >= 0 /\ p[1] < width /\ p[2] >= 0 /\ p[2] < height

\* drawHorizLine(color, fromX, toX, y): the points it sets
drawHorizLine(fromX, toX, y) == {<<x, y>> : x \in fromX .. toX}

\* Entering drawCircle(color, x, y, radius), to return to ret
CallDrawCircle(x, y, radius, ret) ==
    /\ drawCircle' = [NoCircle EXCEPT !.x = x, !.y = y, !.radius = radius,
                                      !.ret = ret]
    /\ pc' = "drawCircle"

----------------------------------------------------------------------------
(* drawCircle *)

\* lines 117-125: the locals, the two poles and the row through the centre
DrawCircleBegin ==
    /\ pc = "drawCircle"
    /\ LET x == drawCircle.x
           y == drawCircle.y
           radius == drawCircle.radius
       IN  /\ drawCircle' = [drawCircle EXCEPT !.f = 1 - radius, !.dfx = 1,
                                               !.dfy = -2 * radius,
                                               !.xx = 0, !.yy = radius]
           /\ drawn' = {p \in {<<x, y + radius>>, <<x, y - radius>>}
                                \cup drawHorizLine(x - radius, x + radius, y) :
                          InBounds(p)}
    /\ pc' = "drawCircleLoop"
    /\ UNCHANGED <<width, height, numbers, primaryColor, numWidth, numHeight,
                   dotSize, newImage, fillWithCircles, drawNumber,
                   strikeThrough, setRandomBrightness, intn>>

\* an iteration without the two spans of lines 138-139
circleSpansOuter(x, y, xx, yy) ==
    drawHorizLine(x - xx, x + xx, y + yy)
        \cup drawHorizLine(x - xx, x + xx, y - yy)

\* lines 136-139: the four spans of one iteration
circleSpans(x, y, xx, yy) ==
    drawHorizLine(x - xx, x + xx, y + yy)
        \cup drawHorizLine(x - xx, x + xx, y - yy)
        \cup drawHorizLine(x - yy, x + yy, y + xx)
        \cup drawHorizLine(x - yy, x + yy, y - xx)

\* lines 127-140: one iteration of the loop
DrawCircleIter ==
    /\ pc = "drawCircleLoop"
    /\ drawCircle.xx < drawCircle.yy
    /\ LET step == drawCircle.f >= 0
           yy1 == IF step THEN drawCircle.yy - 1 ELSE drawCircle.yy
           dfy1 == IF step THEN drawCircle.dfy + 2 ELSE drawCircle.dfy
           f1 == IF step THEN drawCircle.f + dfy1 ELSE drawCircle.f
           xx1 == drawCircle.xx + 1
           dfx1 == drawCircle.dfx + 2
       IN  /\ drawCircle' = [drawCircle EXCEPT !.yy = yy1, !.dfy = dfy1,
                                               !.xx = xx1, !.dfx = dfx1,
                                               !.f = f1 + dfx1]
           /\ drawn' = drawn \cup
                  {p \in circleSpans(drawCircle.x, drawCircle.y, xx1, yy1) :
                      InBounds(p)}
    /\ UNCHANGED <<pc, width, height, numbers, primaryColor, numWidth,
                   numHeight, dotSize, newImage, fillWithCircles, drawNumber,
                   strikeThrough, setRandomBrightness, intn>>

\* line 127 false: the loop ends and drawCircle returns
DrawCircleReturn ==
    /\ pc = "drawCircleLoop"
    /\ ~(drawCircle.xx < drawCircle.yy)
    /\ pc' = drawCircle.ret
    /\ drawCircle' = NoCircle
    /\ drawn' = {}
    /\ UNCHANGED <<width, height, numbers, primaryColor, numWidth, numHeight,
                   dotSize, newImage, fillWithCircles, drawNumber,
                   strikeThrough, setRandomBrightness, intn>>

----------------------------------------------------------------------------
(* NewImage *)

\* lines 35-46: the primary colour, the sizes, and the call of
\* fillWithCircles(10, img.dotSize) up to its loop (lines 144-146)
NewImageBegin ==
    /\ pc = "NewImage"
    /\ \E r \in PrimaryDraws, g \in PrimaryDraws, b \in PrimaryDraws :
           /\ primaryColor' = <<Uint8(r), Uint8(g), Uint8(b)>>
           /\ fillWithCircles' = [color |-> <<Uint8(r), Uint8(g), Uint8(b)>>,
                                  i |-> 0]
    /\ LET s == calculateSizes(width, height, Len(numbers))
       IN  /\ dotSize' = s.dotSize
           /\ numWidth' = s.numWidth
           /\ numHeight' = s.numHeight
    /\ intn' = {129}
    /\ pc' = "fillWithCircles"
    /\ UNCHANGED <<width, height, numbers, newImage, drawNumber,
                   strikeThrough, drawCircle, setRandomBrightness, drawn>>

\* lines 147-151: one iteration of fillWithCircles(n = 10, maxradius = dotSize)
FillWithCirclesIter ==
    /\ pc = "fillWithCircles"
    /\ fillWithCircles.i < 10
    /\ LET color == fillWithCircles.color
           maxradius == dotSize
           maxx == width
           maxy == height
           bright == max3(color[1], color[2], color[3]) <= 255
           argC == brightnessArg(color, 255)
           argR == rndArg(1, maxradius)
       IN  \E vc \in IntnDraws(argC), vr \in IntnDraws(argR) :
             LET r == rnd(1, maxradius, vr)
                 argX == rndArg(r, maxx - r)
                 argY == rndArg(r, maxy - r)
             IN  \E vx \in IntnDraws(argX), vy \in IntnDraws(argY) :
                   /\ fillWithCircles' =
                          [color |-> brightened(color, 255, vc),
                           i |-> fillWithCircles.i + 1]
                   /\ CallDrawCircle(rnd(r, maxx - r, vx),
                                     rnd(r, maxy - r, vy), r,
                                     "fillWithCircles")
                   /\ intn' = (IF bright THEN {argC} ELSE {})
                                  \cup {argR, argX, argY}
    /\ UNCHANGED <<width, height, numbers, primaryColor, numWidth, numHeight,
                   dotSize, newImage, drawNumber, strikeThrough,
                   setRandomBrightness, drawn>>

\* line 147 false: fillWithCircles returns; lines 48-51 place the digits
NewImagePosition ==
    /\ pc = "fillWithCircles"
    /\ ~(fillWithCircles.i < 10)
    /\ LET maxx == width - (numWidth + dotSize) * Len(numbers) - dotSize
           maxy == height - numHeight - dotSize * 2
           argX == rndArg(dotSize * 2, maxx)
           argY == rndArg(dotSize * 2, maxy)
       IN  \E vx \in IntnDraws(argX), vy \in IntnDraws(argY) :
             /\ newImage' = [maxx |-> maxx, maxy |-> maxy,
                             x |-> rnd(dotSize * 2, maxx, vx),
                             y |-> rnd(dotSize * 2, maxy, vy),
                             i |-> 0]
             /\ intn' = {argX, argY}
    /\ fillWithCircles' = NoFill
    /\ pc' = "numbers"
    /\ UNCHANGED <<width, height, numbers, primaryColor, numWidth, numHeight,
                   dotSize, drawNumber, strikeThrough, drawCircle,
                   setRandomBrightness, drawn>>

\* line 53 with a digit left: the call drawNumber(font[n], x, y) up to its
\* loops (lines 170-174).  rand.Float64() is k/Fan for a k in 0..Fan-1, and
\* the floats skf and xs are held as numerators over Fan.
DrawNumberBegin ==
    /\ pc = "numbers"
    /\ newImage.i < Len(numbers)
    /\ numbers[newImage.i + 1] \in 0 .. 9
    /\ LET minr == Quot(dotSize, 2)
           maxr == Quot(dotSize, 2) + Quot(dotSize, 4)
           argS == rndArg(-maxSkew, maxSkew)
           argY == rndArg(-minr, minr)
       IN  \E k \in 0 .. (Fan - 1), vs \in IntnDraws(argS),
              vy \in IntnDraws(argY) :
             /\ drawNumber' = [x |-> newImage.x,
                               y |-> newImage.y + rnd(-minr, minr, vy),
                               xs |-> newImage.x * Fan,
                               skf |-> k * rnd(-maxSkew, maxSkew, vs),
                               minr |-> minr, maxr |-> maxr,
                               yy |-> 0, xx |-> 0]
             /\ intn' = {argS, argY}
    /\ pc' = "drawNumber"
    /\ UNCHANGED <<width, height, numbers, primaryColor, numWidth, numHeight,
                   dotSize, newImage, fillWithCircles, strikeThrough,
                   drawCircle, setRandomBrightness, drawn>>

\* lines 176-185: one cell of the glyph.  The glyph tables are not among the
\* sources: a cell may or may not hold blackChar.
DrawNumberCell ==
    /\ pc = "drawNumber"
    /\ drawNumber.yy < fontHeight
    /\ drawNumber.xx < fontWidth
    /\ drawNumber' = [drawNumber EXCEPT !.xx = drawNumber.xx + 1]
    /\ \E black \in BOOLEAN :
         IF ~black
         THEN UNCHANGED <<pc, drawCircle, intn>>
         ELSE LET argR == rndArg(drawNumber.minr, drawNumber.maxr)
              IN  \E vr \in IntnDraws(argR) :
                    LET or == rnd(drawNumber.minr, drawNumber.maxr, vr)
                        argO == rndArg(0, Quot(or, 2))
                    IN  \E vx \in IntnDraws(argO), vy \in IntnDraws(argO) :
                          /\ CallDrawCircle(
                                 drawNumber.x + (drawNumber.xx * dotSize)
                                     + rnd(0, Quot(or, 2), vx),
                                 drawNumber.y + (drawNumber.yy * dotSize)
                                     + rnd(0, Quot(or, 2), vy),
                                 or, "drawNumber")
                          /\ intn' = {argR, argO}
    /\ UNCHANGED <<width, height, numbers, primaryColor, numWidth, numHeight,
                   dotSize, newImage, fillWithCircles, strikeThrough,
                   setRandomBrightness, drawn>>

\* lines 186-187: the end of a row of the glyph; int(xs) truncates
DrawNumberRow ==
    /\ pc = "drawNumber"
    /\ drawNumber.yy < fontHeight
    /\ ~(drawNumber.xx < fontWidth)
    /\ LET xs == drawNumber.xs + drawNumber.skf
       IN  drawNumber' = [drawNumber EXCEPT !.xs = xs, !.x = Quot(xs, Fan),
                                            !.yy = drawNumber.yy + 1,
                                            !.xx = 0]
    /\ UNCHANGED <<pc, width, height, numbers, primaryColor, numWidth,
                   numHeight, dotSize, newImage, fillWithCircles,
                   strikeThrough, drawCircle, setRandomBrightness, drawn,
                   intn>>

\* line 175 false: drawNumber returns; line 55 moves the cursor
DrawNumberReturn ==
    /\ pc = "drawNumber"
    /\ ~(drawNumber.yy < fontHeight)
    /\ newImage' = [newImage EXCEPT !.x = newImage.x + numWidth + dotSize,
                                    !.i = newImage.i + 1]
    /\ drawNumber' = NoDrawNumber
    /\ pc' = "numbers"
    /\ UNCHANGED <<width, height, numbers, primaryColor, numWidth, numHeight,
                   dotSize, fillWithCircles, strikeThrough, drawCircle,
                   setRandomBrightness, drawn, intn>>

\* line 53 with no digit left: the call of strikeThrough, lines 155-158
StrikeThroughBegin ==
    /\ pc = "numbers"
    /\ ~(newImage.i < Len(numbers))
    /\ LET maxy == height
           argY == rndArg(Quot(maxy, 3), maxy - Quot(maxy, 3))
       IN  \E vy \in IntnDraws(argY) :
             /\ strikeThrough' =
                    [r |-> 0, x |-> 0,
                     y |-> rnd(Quot(maxy, 3), maxy - Quot(maxy, 3), vy)]
             /\ intn' = {argY}
    /\ newImage' = NoNewImage      \* maxx, maxy, x, y are not read again
    /\ pc' = "strikeThrough"
    /\ UNCHANGED <<width, height, numbers, primaryColor, numWidth, numHeight,
                   dotSize, fillWithCircles, drawNumber, drawCircle,
                   setRandomBrightness, drawn>>

\* lines 160-165: the body of the loop of strikeThrough
StrikeThroughIter ==
    /\ pc = "strikeThrough"
    /\ strikeThrough.x < width
    /\ LET maxy == height
           argR == rndArg(1, Quot(dotSize, 2) - 1)
           argD == rndArg(Quot(-dotSize, 2), Quot(dotSize, 2))
           argY == rndArg(Quot(maxy, 3), maxy - Quot(maxy, 3))
       IN  \E vr \in IntnDraws(argR), vd \in IntnDraws(argD) :
             LET r == rnd(1, Quot(dotSize, 2) - 1, vr)
                 y1 == strikeThrough.y
                           + rnd(Quot(-dotSize, 2), Quot(dotSize, 2), vd)
                 reset == y1 <= 0 \/ y1 >= maxy
             IN  \E vy \in IF reset THEN IntnDraws(argY) ELSE {0} :
                   LET y == IF reset
                            THEN rnd(Quot(maxy, 3), maxy - Quot(maxy, 3), vy)
                            ELSE y1
                   IN  /\ strikeThrough' =
                              [strikeThrough EXCEPT !.r = r, !.y = y]
                       /\ CallDrawCircle(strikeThrough.x, y, r,
                                         "strikeThroughNext")
                       /\ intn' = {argR, argD}
                                      \cup (IF reset THEN {argY} ELSE {})
    /\ UNCHANGED <<width, height, numbers, primaryColor, numWidth, numHeight,
                   dotSize, newImage, fillWithCircles, drawNumber,
                   setRandomBrightness, drawn>>

\* line 159, x += r
StrikeThroughNext ==
    /\ pc = "strikeThroughNext"
    /\ strikeThrough' = [strikeThrough EXCEPT
                             !.x = strikeThrough.x + strikeThrough.r]
    /\ pc' = "strikeThrough"
    /\ UNCHANGED <<width, height, numbers, primaryColor, numWidth, numHeight,
                   dotSize, newImage, fillWithCircles, drawNumber, drawCircle,
                   setRandomBrightness, drawn, intn>>

\* line 159 false: strikeThrough and NewImage return
NewImageReturn ==
    /\ pc = "strikeThrough"
    /\ ~(strikeThrough.x < width)
    /\ pc' = "done"
    /\ UNCHANGED <<width, height, numbers, primaryColor, numWidth, numHeight,
                   dotSize, newImage, fillWithCircles, drawNumber,
                   strikeThrough, drawCircle, setRandomBrightness, drawn,
                   intn>>

----------------------------------------------------------------------------
(* NewImage(numbers, width, height) *)

\* one digit sequence of each length
NumberSeqs == {[i \in 1 .. n |-> (i - 1) % 10] : n \in 1 .. MaxDigits}

\* the canvases: the small ones and the standard one
Sizes == ((1 .. MaxSmall) \X (1 .. MaxSmall)) \cup {<<StdWidth, StdHeight>>}

Init ==
    /\ pc = "NewImage"
    /\ \E s \in Sizes : width = s[1] /\ height = s[2]
    /\ numbers \in NumberSeqs
    /\ primaryColor = <<0, 0, 0>>
    /\ numWidth = 0 /\ numHeight = 0 /\ dotSize = 0
    /\ newImage = NoNewImage
    /\ fillWithCircles = NoFill
    /\ drawNumber = NoDrawNumber
    /\ strikeThrough = NoStrike
    /\ drawCircle = NoCircle
    /\ setRandomBrightness = NoBrightness
    /\ drawn = {}
    /\ intn = {}

Next ==
    \/ NewImageBegin
    \/ FillWithCirclesIter
    \/ NewImagePosition
    \/ DrawNumberBegin
    \/ DrawNumberCell
    \/ DrawNumberRow
    \/ DrawNumberReturn
    \/ StrikeThroughBegin
    \/ StrikeThroughIter
    \/ StrikeThroughNext
    \/ NewImageReturn
    \/ DrawCircleBegin
    \/ DrawCircleIter
    \/ DrawCircleReturn

Spec == Init /\ [][Next]_vars

----------------------------------------------------------------------------
(* calculateSizes alone *)

InitSizes ==
    /\ pc = "calculateSizes"
    /\ width \in 1 .. MaxWidth
    /\ height \in 1 .. MaxHeight
    /\ numbers \in {[i \in 1 .. n |-> 0] : n \in 1 .. MaxCount}
    /\ primaryColor = <<0, 0, 0>>
    /\ numWidth = 0 /\ numHeight = 0 /\ dotSize = 0
    /\ newImage = NoNewImage
    /\ fillWithCircles = NoFill
    /\ drawNumber = NoDrawNumber
    /\ strikeThrough = NoStrike
    /\ drawCircle = NoCircle
    /\ setRandomBrightness = NoBrightness
    /\ drawn = {}
    /\ intn = {}

\* img.calculateSizes(width, height, len(numbers))
CalculateSizes ==
    /\ pc = "calculateSizes"
    /\ LET s == calculateSizes(width, height, Len(numbers))
       IN  /\ dotSize' = s.dotSize
           /\ numWidth' = s.numWidth
           /\ numHeight' = s.numHeight
    /\ pc' = "done"
    /\ UNCHANGED <<width, height, numbers, primaryColor, newImage,
                   fillWithCircles, drawNumber, strikeThrough, drawCircle,
                   setRandomBrightness, drawn, intn>>

SpecSizes == InitSizes /\ [][CalculateSizes]_vars

----------------------------------------------------------------------------
(* drawCircle alone, on a blank canvas *)

InitCircle ==
    /\ pc = "drawCircle"
    /\ width = 2 * MaxRadius + 1
    /\ height = 2 * MaxRadius + 1
    /\ \E x \in {0, MaxRadius}, y \in {0, MaxRadius},
          radius \in (-MaxRadius) .. MaxRadius :
         drawCircle = [NoCircle EXCEPT !.x = x, !.y = y, !.radius = radius]
    /\ numbers = <<>>
    /\ primaryColor = <<0, 0, 0>>
    /\ numWidth = 0 /\ numHeight = 0 /\ dotSize = 0
    /\ newImage = NoNewImage
    /\ fillWithCircles = NoFill
    /\ drawNumber = NoDrawNumber
    /\ strikeThrough = NoStrike
    /\ setRandomBrightness = NoBrightness
    /\ drawn = {}
    /\ intn = {}

NextCircle ==
    \/ DrawCircleBegin
    \/ DrawCircleIter
    \/ DrawCircleReturn

SpecCircle == InitCircle /\ [][NextCircle]_vars

----------------------------------------------------------------------------
(* setRandomBrightness alone: cumulative calls on one colour, as in the loop
   of fillWithCircles *)

\* channel values of the first colour
Channels == {0, 77, 128}
\* the brightness ceilings
Ceilings == {255, 128, 100}

InitBrightness ==
    /\ pc = "setRandomBrightness"
    /\ primaryColor \in Channels \X Channels \X Channels
    /\ \E max \in Ceilings :
         setRandomBrightness = [c |-> primaryColor, max |-> max, calls |-> 0]
    /\ width = 0 /\ height = 0
    /\ numbers = <<>>
    /\ numWidth = 0 /\ numHeight = 0 /\ dotSize = 0
    /\ newImage = NoNewImage
    /\ fillWithCircles = NoFill
    /\ drawNumber = NoDrawNumber
    /\ strikeThrough = NoStrike
    /\ drawCircle = NoCircle
    /\ drawn = {}
    /\ intn = {}

\* setRandomBrightness(&color, max), every outcome of rand.Intn
SetRandomBrightness ==
    /\ pc = "setRandomBrightness"
    /\ setRandomBrightness.calls < MaxCalls
    /\ LET c == setRandomBrightness.c
           max == setRandomBrightness.max
           arg == brightnessArg(c, max)
           bright == max3(c[1], c[2], c[3]) <= max
       IN  \E v \in IF bright THEN Intn(arg) ELSE {0} :
             setRandomBrightness' =
                 [setRandomBrightness EXCEPT
                      !.c = brightened(c, max, v),
                      !.calls = setRandomBrightness.calls + 1]
    /\ UNCHANGED <<pc, width, height, numbers, primaryColor, numWidth,
                   numHeight, dotSize, newImage, fillWithCircles, drawNumber,
                   strikeThrough, drawCircle, drawn, intn>>

SpecBrightness == InitBrightness /\ [][SetRandomBrightness]_vars

----------------------------------------------------------------------------
(* Properties *)

Max0(a) == IF a < 0 THEN 0 ELSE a

\* a drawCircle call made from the place ret is running
Drawing(ret) ==
    /\ pc \in {"drawCircle", "drawCircleLoop"}
    /\ drawCircle.ret = ret

\* the loop of the running drawCircle call has ended
CircleDrawn == pc = "drawCircleLoop" /\ ~(drawCircle.xx < drawCircle.yy)

\* the pixels drawn in the row dy below the centre
RowOf(dy) == {p \in drawn : p[2] = drawCircle.y + dy}

\* C1: the sizes calculateSizes computes make the digit row fit: the digits
\* with their spacing plus the margins of NewImage (2*dotSize on the left,
\* dotSize on the right) take at most width, that is, the range of the
\* x-anchor [2*dotSize, width - (numWidth+dotSize)*n - dotSize] is not empty
\* and the cursor after the last digit is at most width.
C1_DigitRowFits ==
    pc = "done" =>
        LET n == Len(numbers)
            maxx == width - (numWidth + dotSize) * n - dotSize
        IN  /\ n * (numWidth + dotSize) + 3 * dotSize <= width
            /\ dotSize * 2 <= maxx
            /\ \A x \in (dotSize * 2) .. maxx :
                   x + n * (numWidth + dotSize) <= width

\* C2: every random draw of NewImage has a non-empty range: each rnd(from, to)
\* has from <= to and each rand.Intn(k) has k > 0.
C2_DrawsNonEmpty == \A k \in intn : k > 0

\* C3: calculateSizes yields numWidth > 0, numHeight > 0 and dotSize >= 0.
C3_SizesPositive ==
    pc = "done" => numWidth > 0 /\ numHeight > 0 /\ dotSize >= 0

\* C4: every dot drawNumber draws lies between the first and the last row of
\* the canvas: oy - or >= 0 and oy + or <= height - 1.
C4_DotsNotClipped ==
    Drawing("drawNumber") =>
        /\ drawCircle.y - drawCircle.radius >= 0
        /\ drawCircle.y + drawCircle.radius <= height - 1

\* C6: drawCircle with radius r >= 0 on a canvas that holds the whole disc
\* sets (cx, cy+r), (cx, cy-r) and the span [cx-r, cx+r] of row cy, and in
\* every row from cy-r to cy+r the pixels set are a non-empty span centred
\* on cx.
C6_FilledDisk ==
    LET cx == drawCircle.x
        cy == drawCircle.y
        r == drawCircle.radius
    IN  (/\ CircleDrawn
         /\ r >= 0
         /\ cx - r >= 0 /\ cx + r < width
         /\ cy - r >= 0 /\ cy + r < height)
        => /\ <<cx, cy + r>> \in drawn
           /\ <<cx, cy - r>> \in drawn
           /\ drawHorizLine(cx - r, cx + r, cy) \subseteq drawn
           /\ \A dy \in (-r) .. r :
                \E k \in 0 .. r : RowOf(dy) = drawHorizLine(cx - k, cx + k, cy + dy)
           /\ \A p \in drawn : Abs(p[2] - cy) <= r

\* a disc of radius at least 3, whole on the canvas, has been drawn
C6_Witness ==
    /\ CircleDrawn
    /\ drawCircle.radius >= 3
    /\ drawCircle.x = MaxRadius /\ drawCircle.y = MaxRadius
    /\ Cardinality(drawn) > 4 * drawCircle.radius

\* C7: drawCircle with radius <= 0 sets the one pixel (x, y) or no pixel.
C7_DegenerateCircle ==
    (CircleDrawn /\ drawCircle.radius <= 0)
        => drawn \subseteq {<<drawCircle.x, drawCircle.y>>}

\* C8: setRandomBrightness(c, max) adds one delta n to R, G and B without
\* wrapping, so that the differences of the channels stay and every channel
\* ends in [0, max]; when the largest channel is above max the colour stays.
C8_SameDelta ==
    [][LET c == setRandomBrightness.c
           d == setRandomBrightness'.c
           max == setRandomBrightness.max
       IN  IF max3(c[1], c[2], c[3]) > max
           THEN d = c
           ELSE /\ LET n == d[1] - c[1] IN \A i \in 1 .. 3 : d[i] = c[i] + n
                /\ \A i \in 1 .. 3 : d[i] >= 0 /\ d[i] <= max
                /\ d[2] - d[1] = c[2] - c[1]
                /\ d[3] - d[2] = c[3] - c[2]]_vars

\* ten cumulative calls with max = 255 have brightened a primary colour
C8_Witness ==
    /\ setRandomBrightness.calls >= 10
    /\ setRandomBrightness.max = 255
    /\ max3(primaryColor[1], primaryColor[2], primaryColor[3]) <= 128
    /\ primaryColor[1] # primaryColor[2]
    /\ setRandomBrightness.c[1] > primaryColor[1]

\* C9: every circle of fillWithCircles(n, maxradius) has its radius in
\* [1, maxradius] and lies whole on the canvas.
C9_BackgroundInside ==
    Drawing("fillWithCircles") =>
        LET cx == drawCircle.x
            cy == drawCircle.y
            r == drawCircle.radius
        IN  /\ r >= 1 /\ r <= dotSize
            /\ cx - r >= 0 /\ cx + r <= width - 1
            /\ cy - r >= 0 /\ cy + r <= height - 1

\* C10: strikeThrough starts at a y in the middle third [H/3, H - H/3], and
\* every circle it draws has its centre row strictly inside the canvas.
C10_StrikeInside ==
    /\ (pc = "strikeThrough" /\ strikeThrough.x = 0) =>
           /\ strikeThrough.y >= Quot(height, 3)
           /\ strikeThrough.y <= height - Quot(height, 3)
    /\ Drawing("strikeThroughNext") =>
           drawCircle.y > 0 /\ drawCircle.y < height

----------------------------------------------------------------------------
(* Termination of NewImage: a rank that every step lowers *)

\* steps left in the running drawCircle call: one for the return, one for
\* each iteration (yy - xx falls by at least 1), one for the first lines
CircleRank ==
    CASE pc = "drawCircle" -> Max0(drawCircle.radius) + 2
      [] pc = "drawCircleLoop" -> Max0(drawCircle.yy - drawCircle.xx) + 1
      [] OTHER -> 0

\* more than any CircleRank: no radius exceeds the larger of 1 and dotSize
CircleBound == width + height + 4

\* the steps one drawNumber call takes outside drawCircle, and a bound on them
DigitRank ==
    (fontHeight - drawNumber.yy) * (fontWidth + 1)
        + (fontWidth - drawNumber.xx) + 1
DigitBound == (fontHeight + 1) * (fontWidth + 1) + 2

\* the steps left outside drawCircle at the place at
StrikeBound == 2 * width + 3
NumbersBound == StrikeBound + Len(numbers) * DigitBound + 2
PlaceRank(at) ==
    CASE at = "done" -> 0
      [] at = "strikeThroughNext" -> 2 * Max0(width - strikeThrough.x) + 1
      [] at = "strikeThrough" -> 2 * Max0(width - strikeThrough.x) + 2
      [] at = "drawNumber" ->
             StrikeBound + (Len(numbers) - newImage.i - 1) * DigitBound
                 + 1 + DigitRank
      [] at = "numbers" ->
             StrikeBound + (Len(numbers) - newImage.i) * DigitBound + 1
      [] at = "fillWithCircles" -> NumbersBound + (10 - fillWithCircles.i)
      [] at = "NewImage" -> NumbersBound + 11

Rank ==
    IF pc \in {"drawCircle", "drawCircleLoop"}
    THEN PlaceRank(drawCircle.ret) * CircleBound + CircleRank
    ELSE PlaceRank(pc) * CircleBound

\* C5: every NewImage call terminates: the rank is a natural number that
\* every step lowers (in the loop of strikeThrough because x advances by
\* r >= 1), and a step is possible until NewImage has returned.
C5_Terminates ==
    /\ [](Rank >= 0 /\ (pc = "done" \/ ENABLED Next))
    /\ [][Rank' < Rank]_vars
    /\ [][pc = "strikeThroughNext" =>
              /\ strikeThrough.r >= 1
              /\ strikeThrough'.x > strikeThrough.x]_vars

\* NewImage has returned from the standard canvas, where the step of
\* strikeThrough is drawn from [1, dotSize/2 - 1] with dotSize/2 - 1 >= 2
C5_Witness ==
    /\ pc = "done"
    /\ width = StdWidth /\ height = StdHeight
    /\ Quot(dotSize, 2) - 1 >= 2
    /\ strikeThrough.x >= width
    /\ strikeThrough.r = 2

====
